---------------------------- MODULE Spec2Model ----------------------------
(***************************************************************************)
(* Model of the question-solving service of src/app.py: one POST /api/     *)
(* request travelling through solve_question, extract_data_from_file and   *)
(* get_answer_from_ai.                                                     *)
(*                                                                         *)
(* Text is modelled as a sequence of symbols.  Every symbol stands for a   *)
(* fixed piece of text ("answer" is the literal header word, "," the       *)
(* delimiter, and so on), so concatenation, splitting and comparison work  *)
(* as they do on Python strings.  A Python value that may be None is a set *)
(* with at most one element.                                               *)
(***************************************************************************)
EXTENDS Integers, Sequences, FiniteSets

VARIABLES
    environ,          \* process environment read at import time
    AI_PROXY_TOKEN,   \* module global, app.py:19
    AI_PROXY_URL,     \* module global, app.py:20
    request,          \* the incoming request: content type, form, file part
    stream,           \* bytes of the uploaded file, once they are read
    pc,               \* position of the request inside solve_question
    file_data,        \* result of extract_data_from_file (None = {})
    raised,           \* exception raised inside extract_data_from_file ("" = none)
    extractorRuns,    \* extractors that were entered, in order
    tempFiles,        \* temporary files currently on disk
    tempCreated,      \* number of temporary files ever created
    apiCalls,         \* calls made to requests.post
    apiOutcome,       \* what the last call to requests.post produced (None = {})
    payload,          \* what the last call to requests.post was given (None = {})
    response          \* the HTTP response (status 0 = not answered yet)

vars == <<environ, AI_PROXY_TOKEN, AI_PROXY_URL, request, stream, pc, file_data,
          raised, extractorRuns, tempFiles, tempCreated, apiCalls, apiOutcome,
          payload, response>>

---------------------------------------------------------------------------
(* Bounds of the model *)

\* longest uploaded csv file, in symbols
MaxLen == 3
\* longest uploaded generic (txt, pdf, ...) file, in symbols
MaxTextLen == 1
\* most entries in an uploaded archive
MaxEntries == 2
\* longest message content returned by the model service, in symbols
MaxReply == 1

---------------------------------------------------------------------------
(* Python helpers *)

None == {}
Some(x) == {x}
The(opt) == CHOOSE x \in opt : TRUE

\* dict.get(key, default) on an optional field
Get(opt, default) == IF opt = None THEN default ELSE The(opt)

SeqsUpTo(S, n) == UNION {[1..k -> S] : k \in 0..n}

\* list.index / "x in list"
Contains(seq, x) == \E i \in 1..Len(seq) : seq[i] = x
IndexOf(seq, x) == (CHOOSE i \in 1..Len(seq) :
                        seq[i] = x /\ \A j \in 1..(i-1) : seq[j] # x) - 1

RECURSIVE LStrip(_, _)
LStrip(s, chars) ==
    IF s # <<>> /\ Head(s) \in chars THEN LStrip(Tail(s), chars) ELSE s

RECURSIVE RStrip(_, _)
RStrip(s, chars) ==
    IF s # <<>> /\ s[Len(s)] \in chars
    THEN RStrip(SubSeq(s, 1, Len(s) - 1), chars) ELSE s

\* str.strip(chars)
Strip(s, chars) == RStrip(LStrip(s, chars), chars)

\* bytes.decode('utf-8', errors='ignore'): invalid bytes are dropped
BADBYTE == "0xFF"
DecodeIgnore(bytes) == SelectSeq(bytes, LAMBDA b : b # BADBYTE)
\* bytes.decode('utf-8'): raises UnicodeDecodeError on an invalid byte
DecodeStrictRaises(bytes) == Contains(bytes, BADBYTE)

---------------------------------------------------------------------------
(* csv.reader with the default (excel) dialect, as used on lines 38-39 and *)
(* 67: delimiter ",", quotechar '"', doublequote, not strict.              *)

ANSWER == "answer"
CELL == "42"
COMMA == ","
LF == "LF"
DQUOTE == "DQUOTE"
\* end-of-line marker the reader feeds itself after each line
EOL == "EOL"

CsvAlphabet == {ANSWER, CELL, COMMA, LF, DQUOTE}
ByteAlphabet == CsvAlphabet \cup {BADBYTE}

\* The reader takes its input line by line and processes an end-of-line
\* marker after the characters of each line.
RECURSIVE WithEOL(_)
WithEOL(s) ==
    IF s = <<>> THEN <<>>
    ELSE IF Head(s) = LF THEN <<LF, EOL>> \o WithEOL(Tail(s))
    ELSE IF Len(s) = 1 THEN <<Head(s), EOL>>
    ELSE <<Head(s)>> \o WithEOL(Tail(s))

AfterNewline(c) == IF c = EOL THEN "START_RECORD" ELSE "EAT_CRNL"

\* One character of the reader's state machine.  r = [st, field, fields].
SaveField(r, st) ==
    [st |-> st, field |-> <<>>, fields |-> Append(r.fields, r.field)]
AddChar(r, c, st) ==
    [st |-> st, field |-> Append(r.field, c), fields |-> r.fields]
Goto(r, st) == [r EXCEPT !.st = st]

StartField(r, c) ==
    IF c \in {LF, EOL} THEN SaveField(r, AfterNewline(c))
    ELSE IF c = DQUOTE THEN Goto(r, "IN_QUOTED_FIELD")
    ELSE IF c = COMMA THEN SaveField(r, "START_FIELD")
    ELSE AddChar(r, c, "IN_FIELD")

ProcessChar(r, c) ==
    CASE r.st = "START_RECORD" ->
            IF c = EOL THEN r
            ELSE IF c = LF THEN Goto(r, "EAT_CRNL")
            ELSE StartField(r, c)
      [] r.st = "START_FIELD" -> StartField(r, c)
      [] r.st = "IN_FIELD" ->
            IF c \in {LF, EOL} THEN SaveField(r, AfterNewline(c))
            ELSE IF c = COMMA THEN SaveField(r, "START_FIELD")
            ELSE AddChar(r, c, "IN_FIELD")
      [] r.st = "IN_QUOTED_FIELD" ->
            IF c = EOL THEN r
            ELSE IF c = DQUOTE THEN Goto(r, "QUOTE_IN_QUOTED_FIELD")
            ELSE AddChar(r, c, "IN_QUOTED_FIELD")
      [] r.st = "QUOTE_IN_QUOTED_FIELD" ->
            IF c = DQUOTE THEN AddChar(r, c, "IN_QUOTED_FIELD")
            ELSE IF c = COMMA THEN SaveField(r, "START_FIELD")
            ELSE IF c \in {LF, EOL} THEN SaveField(r, AfterNewline(c))
            ELSE AddChar(r, c, "IN_FIELD")
      [] r.st = "EAT_CRNL" ->
            IF c = EOL THEN Goto(r, "START_RECORD") ELSE r

\* A record is complete when the reader is back in START_RECORD at the end
\* of a line; at the end of the input an open quoted field is closed.
RECURSIVE ReadRows(_, _, _)
ReadRows(s, r, rows) ==
    IF s = <<>> THEN
        IF r.field # <<>> \/ r.st = "IN_QUOTED_FIELD"
        THEN Append(rows, Append(r.fields, r.field))
        ELSE rows
    ELSE LET n == ProcessChar(r, Head(s)) IN
         IF Head(s) = EOL /\ n.st = "START_RECORD"
         THEN ReadRows(Tail(s),
                       [st |-> "START_RECORD", field |-> <<>>, fields |-> <<>>],
                       Append(rows, n.fields))
         ELSE ReadRows(Tail(s), n, rows)

\* list(csv.reader(io.StringIO(text)))
CsvRows(text) ==
    ReadRows(WithEOL(text),
             [st |-> "START_RECORD", field |-> <<>>, fields |-> <<>>], <<>>)

---------------------------------------------------------------------------
(* File names *)

DOT == "."
STEM == "report"
\* a character outside ASCII that has no ASCII decomposition
NONASCII == "U+65E5"

ExtWords == {"csv", "CSV", "zip", "txt", "pdf", "xlsx", "json", "exe"}

\* str.lower() on one symbol and on a string
LowerSym(c) == IF c = "CSV" THEN "csv" ELSE c
Lower(s) == [i \in 1..Len(s) |-> LowerSym(s[i])]

\* filename.rsplit('.', 1)[1], for a name that contains a dot
LastDot(s) == CHOOSE i \in 1..Len(s) :
                  s[i] = DOT /\ \A j \in (i+1)..Len(s) : s[j] # DOT
AfterLastDot(s) == SubSeq(s, LastDot(s) + 1, Len(s))

ALLOWED_EXTENSIONS ==
    {<<"csv">>, <<"zip">>, <<"txt">>, <<"pdf">>, <<"xlsx">>, <<"json">>}

\* the allow-list check without the look at the extension
allowed_file_any_dot(filename) == Contains(filename, DOT)

allowed_file(filename) ==
    /\ Contains(filename, DOT)
    /\ Lower(AfterLastDot(filename)) \in ALLOWED_EXTENSIONS

\* werkzeug.utils.secure_filename: characters outside ASCII are dropped,
\* then leading and trailing dots and underscores are stripped.
secure_filename(name) ==
    Strip(SelectSeq(name, LAMBDA c : c # NONASCII), {DOT})

\* line 94
FileExtension(filename) ==
    IF Contains(filename, DOT) THEN Lower(AfterLastDot(filename)) ELSE <<>>

\* str.endswith('.csv') after lower(), line 35
EndsWithCsv(name) ==
    /\ Len(name) >= 2
    /\ Lower(name)[Len(name) - 1] = DOT
    /\ Lower(name)[Len(name)] = "csv"

---------------------------------------------------------------------------
(* process_csv_file, lines 63-86 *)

ProcessCsvRaises(bytes) == DecodeStrictRaises(bytes)

CsvAnswerColIndex(headers) ==
    IF Contains(headers, <<ANSWER>>) THEN IndexOf(headers, <<ANSWER>>) ELSE -1

CsvDirectAnswer(headers, data) ==
    LET idx == CsvAnswerColIndex(headers) IN
    IF idx >= 0 /\ data # <<>>
    THEN IF Len(data[1]) > idx THEN Some(data[1][idx + 1]) ELSE None
    ELSE None

process_csv_file(bytes) ==
    LET rows == CsvRows(bytes)
        headers == IF rows # <<>> THEN rows[1] ELSE <<>>
        data == IF Len(rows) > 1 THEN Tail(rows) ELSE <<>>
    IN [headers |-> headers,
        data |-> data,
        answer_col_index |-> CsvAnswerColIndex(headers),
        direct_answer |-> CsvDirectAnswer(headers, data)]

---------------------------------------------------------------------------
(* process_zip_file, lines 27-61.  An archive is a sequence of entries     *)
(* [filename, body]; body = None is an entry whose data cannot be read.    *)
(* file_contents is a dict: a sequence of [key, value] with distinct keys, *)
(* in insertion order.                                                     *)

DictHas(d, k) == \E i \in 1..Len(d) : d[i].key = k
DictSet(d, k, v) ==
    IF DictHas(d, k)
    THEN [i \in 1..Len(d) |-> IF d[i].key = k THEN [key |-> k, value |-> v]
                                              ELSE d[i]]
    ELSE Append(d, [key |-> k, value |-> v])

\* lines 37-59: the content stored for one csv entry
ZipEntryDirectAnswer(rows) ==
    IF rows # <<>> /\ Contains(rows[1], <<ANSWER>>)
    THEN LET answer_idx == IndexOf(rows[1], <<ANSWER>>) IN
         IF Len(rows) > 1 /\ Len(rows[2]) > answer_idx
         THEN Some(rows[2][answer_idx + 1]) ELSE None
    ELSE None

ZipEntryContent(body) ==
    LET csv_content == DecodeIgnore(body)
        rows == CsvRows(csv_content)
    IN [type |-> "csv",
        direct_answer |-> ZipEntryDirectAnswer(rows),
        headers |-> IF rows # <<>> THEN rows[1] ELSE <<>>,
        data |-> IF Len(rows) > 1 THEN Tail(rows) ELSE <<>>,
        raw |-> csv_content]

\* lines 34-59: the loop over zip_ref.infolist()
RECURSIVE ZipLoop(_, _)
ZipLoop(entries, file_contents) ==
    IF entries = <<>> THEN [raises |-> FALSE, contents |-> file_contents]
    ELSE LET e == Head(entries) IN
         IF ~EndsWithCsv(e.filename) THEN ZipLoop(Tail(entries), file_contents)
         ELSE IF e.body = None THEN [raises |-> TRUE, contents |-> file_contents]
         ELSE ZipLoop(Tail(entries),
                      DictSet(file_contents, e.filename,
                              ZipEntryContent(The(e.body))))

\* zipfile.ZipFile(temp.name) raises BadZipFile when the upload is no archive
process_zip_file(upload) ==
    IF upload.zip = None THEN [raises |-> TRUE, contents |-> <<>>]
    ELSE ZipLoop(The(upload.zip), <<>>)

\* line 60 is reached only when nothing was raised inside the with blocks
ZipUnlinksTemp(upload) == ~process_zip_file(upload).raises

---------------------------------------------------------------------------
(* extract_data_from_file, lines 88-115.  file_data is a dict; a key the   *)
(* branch does not set is None.  The generic branch stores its decoded     *)
(* text under 'content' too: the model keeps it in the field text.         *)

ZipFileData(filename, contents) ==
    [file_type |-> <<"zip">>, filename |-> filename,
     contents |-> Some(contents), content |-> None, text |-> None]

CsvFileData(filename, content) ==
    [file_type |-> <<"csv">>, filename |-> filename,
     contents |-> None, content |-> Some(content), text |-> None]

TextFileData(file_extension, filename, bytes) ==
    [file_type |-> file_extension, filename |-> filename,
     contents |-> None, content |-> None, text |-> Some(DecodeIgnore(bytes))]

---------------------------------------------------------------------------
(* get_answer_from_ai, lines 117-219 *)

\* truth value of a Python string that may be None
Truthy(opt) == opt # None /\ Len(The(opt)) > 0

\* the loop of lines 124-126 keeping the last match instead of the first
RECURSIVE ZipLastDirectAnswer(_)
ZipLastDirectAnswer(contents) ==
    IF contents = <<>> THEN None
    ELSE IF ZipLastDirectAnswer(Tail(contents)) # None
         THEN ZipLastDirectAnswer(Tail(contents))
    ELSE IF Truthy(Head(contents).value.direct_answer)
         THEN Head(contents).value.direct_answer
    ELSE None

\* lines 124-126: the first entry, in dict order, with a non-empty answer
RECURSIVE ZipFirstDirectAnswer(_)
ZipFirstDirectAnswer(contents) ==
    IF contents = <<>> THEN None
    ELSE IF Truthy(Head(contents).value.direct_answer)
         THEN Head(contents).value.direct_answer
         ELSE ZipFirstDirectAnswer(Tail(contents))

\* lines 121-132 without the archive branch
DirectAnswerCsvOnly(fd) ==
    IF fd # None /\ The(fd).file_type = <<"csv">>
       /\ The(fd).content # None
       /\ Truthy(The(The(fd).content).direct_answer)
    THEN The(The(fd).content).direct_answer ELSE None

\* lines 121-132
DirectAnswer(fd) ==
    IF fd = None THEN None
    ELSE IF The(fd).file_type = <<"zip">>
         THEN ZipFirstDirectAnswer(Get(The(fd).contents, <<>>))
    ELSE IF The(fd).file_type = <<"csv">>
         THEN IF The(fd).content # None
                 /\ Truthy(The(The(fd).content).direct_answer)
              THEN The(The(fd).content).direct_answer ELSE None
    ELSE None

\* line 134 looking at the token alone
NotConfiguredTokenOnly(token, url) == ~Truthy(token)

\* line 134; the token is a string or None, the URL always a string
NotConfigured(token, url) == ~Truthy(token) \/ url = <<>>

\* lines 143-147: the first entry with an "answer" header whose first data
\* row reaches that column; the cell is returned whatever it holds
RECURSIVE ZipSpecialAnswer(_)
ZipSpecialAnswer(contents) ==
    IF contents = <<>> THEN None
    ELSE LET content == Head(contents).value IN
         IF /\ content.type = "csv"
            /\ Contains(content.headers, <<ANSWER>>)
            /\ content.data # <<>>
            /\ Len(content.data[1]) > IndexOf(content.headers, <<ANSWER>>)
         THEN Some(content.data[1][IndexOf(content.headers, <<ANSWER>>) + 1])
         ELSE ZipSpecialAnswer(Tail(contents))

\* lines 138-147
SpecialAnswer(fd) ==
    IF fd = None THEN None
    ELSE IF The(fd).file_type = <<"csv">>
            /\ The(fd).content # None
            /\ Truthy(The(The(fd).content).direct_answer)
         THEN The(The(fd).content).direct_answer
    ELSE IF The(fd).file_type = <<"zip">>
         THEN ZipSpecialAnswer(Get(The(fd).contents, <<>>))
    ELSE None

\* lines 159 and 165: rows of a csv file shown to the model
DataSampleRows == 3
\* lines 161 and 167: characters of a text file shown to the model
ContentSampleChars == 100

Prefix(seq, n) == IF Len(seq) <= n THEN seq ELSE SubSeq(seq, 1, n)

\* lines 150-167: the context, as the list of the facts it is built from
Context(fd) ==
    IF fd = None THEN <<>>
    ELSE IF The(fd).file_type = <<"zip">>
         THEN LET cs == Get(The(fd).contents, <<>>) IN
              <<[file |-> The(fd).filename, kind |-> "zip",
                 headers |-> <<>>, sample |-> <<>>]>> \o
              [i \in 1..Len(cs) |->
                 [file |-> cs[i].key, kind |-> "csv",
                  headers |-> cs[i].value.headers,
                  sample |-> Prefix(cs[i].value.data, DataSampleRows)]]
    ELSE IF The(fd).file_type = <<"csv">>
         THEN <<[file |-> The(fd).filename, kind |-> "csv",
                 headers |-> The(The(fd).content).headers,
                 sample |-> Prefix(The(The(fd).content).data, DataSampleRows)]>>
    ELSE <<[file |-> The(fd).filename, kind |-> "text",
            headers |-> <<>>,
            sample |-> <<Prefix(Get(The(fd).text, <<>>), ContentSampleChars)>>]>>

SPACE == " "
BACKTICK == "BACKTICK"
Whitespace == {SPACE, LF}
ReplyAlphabet == {SPACE, BACKTICK, LF, CELL}

\* str.split('\n')[0]
RECURSIVE FirstLine(_)
FirstLine(s) ==
    IF s = <<>> \/ Head(s) = LF THEN <<>> ELSE <<Head(s)>> \o FirstLine(Tail(s))

\* lines 207-212
CleanAnswer(content) ==
    LET answer == Strip(Strip(content, Whitespace), {BACKTICK}) IN
    IF Contains(answer, LF) THEN Strip(FirstLine(answer), Whitespace)
    ELSE answer

Answer(a) == [status |-> 200, answer |-> Some(a), error |-> ""]
Error(status, message) == [status |-> status, answer |-> None, error |-> message]

\* line 204: data.get('choices', [{}])[0].get('message', {}).get('content', '')
\* on the decoded body; raises when a step has nothing to work on
DefaultContent == [is_str |-> TRUE, text |-> <<>>]
DefaultMessage == [content |-> None]
DefaultChoices == <<[message |-> None]>>

ContentOf(data) ==
    Get(Get(Get(data.choices, DefaultChoices)[1].message,
            DefaultMessage).content, DefaultContent)

ExtractRaises(data) ==
    \/ ~data.is_object
    \/ Get(data.choices, DefaultChoices) = <<>>
    \/ ~ContentOf(data).is_str

\* lines 198-219: the result for what requests.post produced
ModelResult(outcome) ==
    IF outcome.kind \in {"ConnectionError", "HTTPError", "JSONDecodeError"}
    THEN Error(500, "AI service error")
    ELSE IF outcome.kind = "ValueError" THEN Error(500, "Unexpected error")
    ELSE IF ExtractRaises(outcome.json) THEN Error(500, "Unexpected error")
    ELSE Answer(CleanAnswer(ContentOf(outcome.json).text))

---------------------------------------------------------------------------
(* Inputs *)

\* line 20: the URL used when the environment sets none
DEFAULT_URL == <<"https://aiproxy.sanand.workers.dev/">>

\* an environment variable is unset, set to the empty string, or set
EnvTokens == {None, Some(<<>>), Some(<<"secret">>)}
EnvUrls == {None, Some(<<>>), Some(<<"https://proxy.example/">>)}
Environments == [AI_PROXY_TOKEN : EnvTokens, AI_PROXY_URL : EnvUrls]

MULTIPART == "multipart/form-data"
ContentTypes == {None,
                 Some(<<MULTIPART, "; boundary=x">>),
                 Some(<<"application/x-www-form-urlencoded">>),
                 Some(<<"application/json">>)}

Questions == {<<>>, <<SPACE>>, <<"q">>, <<SPACE, "q", SPACE>>}

Stems == {<<>>, <<STEM>>, <<NONASCII>>}
Suffixes == {<<>>} \cup {<<DOT, e>> : e \in ExtWords}
Filenames == {stem \o suffix : stem \in Stems, suffix \in Suffixes}

\* A form is parsed only from a form content type and files only from a
\* multipart body.
HasForm(ct) == ct # None /\ (Contains(The(ct), MULTIPART)
                             \/ The(ct) = <<"application/x-www-form-urlencoded">>)
HasFiles(ct) == ct # None /\ Contains(The(ct), MULTIPART)

Requests ==
    {r \in [content_type : ContentTypes,
            question : {None} \cup {Some(q) : q \in Questions},
            file : {None} \cup {Some(f) : f \in Filenames}] :
        /\ (~HasForm(r.content_type) => r.question = None)
        /\ (~HasFiles(r.content_type) => r.file = None)}

NoUpload == [bytes |-> <<>>, zip |-> None]

\* uploads read as text: any bytes
CsvUploads == {[bytes |-> b, zip |-> None] : b \in SeqsUpTo(ByteAlphabet, MaxLen)}
TextUploads == {[bytes |-> b, zip |-> None] : b \in SeqsUpTo(ByteAlphabet, MaxTextLen)}

\* archive entries: csv members with the bodies that matter to the answer
\* column, a csv member whose data cannot be read, and a member that is
\* no csv file
EntryBodies ==
    {<<ANSWER, LF, CELL>>,              \* answer "42"
     <<ANSWER, LF, CELL, CELL>>,        \* answer "4242"
     <<ANSWER, LF, COMMA>>,             \* empty answer cell
     <<ANSWER>>,                        \* no data row
     <<CELL, COMMA, ANSWER, LF, CELL>>, \* first data row too short
     <<CELL, LF, BADBYTE, CELL>>}       \* no answer header, an invalid byte
CsvEntryNames == {<<"a", DOT, "csv">>, <<"b", DOT, "CSV">>}
Entries ==
    {[filename |-> n, body |-> b] :
        n \in CsvEntryNames, b \in {None} \cup {Some(x) : x \in EntryBodies}}
    \cup {[filename |-> <<"notes", DOT, "txt">>, body |-> Some(<<CELL>>)]}

\* an upload that is no archive at all, or an archive of a few entries
ZipUploads ==
    {NoUpload} \cup
    {[bytes |-> <<>>, zip |-> Some(es)] : es \in SeqsUpTo(Entries, MaxEntries)}

NoBody == [is_object |-> FALSE, choices |-> None]
Contents ==
    {None, Some([is_str |-> FALSE, text |-> <<>>])}
    \cup {Some([is_str |-> TRUE, text |-> t]) : t \in SeqsUpTo(ReplyAlphabet, MaxReply)}
Messages == {None} \cup {Some([content |-> c]) : c \in Contents}
ChoiceLists ==
    {None, Some(<<>>)} \cup {Some(<<[message |-> m]>>) : m \in Messages}
JsonBodies == {NoBody} \cup {[is_object |-> TRUE, choices |-> c] : c \in ChoiceLists}

\* what requests.post, raise_for_status and response.json() can produce
ApiOutcomes ==
    {[kind |-> k, json |-> NoBody] :
        k \in {"ConnectionError", "HTTPError", "JSONDecodeError", "ValueError"}}
    \cup {[kind |-> "JSON", json |-> d] : d \in JsonBodies}

---------------------------------------------------------------------------
(* The state machine *)

NoResponse == [status |-> 0, answer |-> None, error |-> ""]

Init ==
    /\ environ \in Environments
    /\ AI_PROXY_TOKEN = environ.AI_PROXY_TOKEN
    /\ AI_PROXY_URL = Get(environ.AI_PROXY_URL, DEFAULT_URL)
    /\ request \in Requests
    /\ stream = NoUpload
    /\ pc = "request"
    /\ file_data = None
    /\ raised = ""
    /\ extractorRuns = <<>>
    /\ tempFiles = {}
    /\ tempCreated = 0
    /\ apiCalls = 0
    /\ apiOutcome = None
    /\ payload = None
    /\ response = NoResponse

\* line 239: a file part with a non-empty name
HasFile(r) == r.file # None /\ The(r.file) # <<>>

\* request.form['question'].strip(), line 233
Question(r) == Strip(The(r.question), Whitespace)

\* lines 224-242: the checks made before the file is read
Validate(r) ==
    IF r.content_type = None \/ ~Contains(The(r.content_type), MULTIPART)
    THEN Error(415, "Content-Type must be multipart/form-data")
    ELSE IF r.question = None THEN Error(400, "Question parameter is required")
    ELSE IF Question(r) = <<>> THEN Error(400, "Question cannot be empty")
    ELSE IF HasFile(r) /\ ~allowed_file(The(r.file))
         THEN Error(400, "File type not allowed")
    ELSE NoResponse

Finish(resp) == response' = resp /\ pc' = "done"

ValidateRequest ==
    /\ pc = "request"
    /\ IF Validate(request) # NoResponse THEN Finish(Validate(request))
       ELSE /\ pc' = IF HasFile(request) THEN "extract" ELSE "resolve"
            /\ response' = response
    /\ UNCHANGED <<environ, AI_PROXY_TOKEN, AI_PROXY_URL, request, stream,
                   file_data, raised, extractorRuns, tempFiles, tempCreated,
                   apiCalls, apiOutcome, payload>>

\* lines 93-94
Filename == secure_filename(The(request.file))

\* lines 245-247
ExtractionFailed(exception) ==
    /\ raised' = exception
    /\ file_data' = None
    /\ Finish(Error(400, "Failed to process uploaded file"))

Extracted(fd) ==
    /\ raised' = raised
    /\ file_data' = Some(fd)
    /\ pc' = "resolve"
    /\ response' = response

\* lines 96-101 with process_zip_file
ExtractZip ==
    /\ pc = "extract"
    /\ FileExtension(Filename) = <<"zip">>
    /\ \E upload \in ZipUploads :
         /\ stream' = upload
         /\ extractorRuns' = Append(extractorRuns, "process_zip_file")
         /\ tempCreated' = tempCreated + 1
         /\ tempFiles' = IF ZipUnlinksTemp(upload) THEN tempFiles
                         ELSE tempFiles \cup {tempCreated + 1}
         /\ IF process_zip_file(upload).raises
            THEN ExtractionFailed(IF upload.zip = None THEN "BadZipFile"
                                  ELSE "EntryReadError")
            ELSE Extracted(ZipFileData(Filename, process_zip_file(upload).contents))
    /\ UNCHANGED <<environ, AI_PROXY_TOKEN, AI_PROXY_URL, request, apiCalls,
                   apiOutcome, payload>>

\* lines 102-107 with process_csv_file
ExtractCsv ==
    /\ pc = "extract"
    /\ FileExtension(Filename) = <<"csv">>
    /\ \E upload \in CsvUploads :
         /\ stream' = upload
         /\ extractorRuns' = Append(extractorRuns, "process_csv_file")
         /\ IF ProcessCsvRaises(upload.bytes)
            THEN ExtractionFailed("UnicodeDecodeError")
            ELSE Extracted(CsvFileData(Filename, process_csv_file(upload.bytes)))
    /\ UNCHANGED <<environ, AI_PROXY_TOKEN, AI_PROXY_URL, request, tempFiles,
                   tempCreated, apiCalls, apiOutcome, payload>>

\* lines 108-115
ExtractText ==
    /\ pc = "extract"
    /\ FileExtension(Filename) \notin {<<"zip">>, <<"csv">>}
    /\ \E upload \in TextUploads :
         /\ stream' = upload
         /\ extractorRuns' = Append(extractorRuns, "read_as_text")
         /\ Extracted(TextFileData(FileExtension(Filename), Filename, upload.bytes))
    /\ UNCHANGED <<environ, AI_PROXY_TOKEN, AI_PROXY_URL, request, tempFiles,
                   tempCreated, apiCalls, apiOutcome, payload>>

\* lines 121-132, then 250-256
ReturnDirectAnswer ==
    /\ pc = "resolve"
    /\ DirectAnswer(file_data) # None
    /\ Finish(Answer(The(DirectAnswer(file_data))))
    /\ UNCHANGED <<environ, AI_PROXY_TOKEN, AI_PROXY_URL, request, stream,
                   file_data, raised, extractorRuns, tempFiles, tempCreated,
                   apiCalls, apiOutcome, payload>>

\* lines 134-135, then 250-256
ReturnNotConfigured ==
    /\ pc = "resolve"
    /\ DirectAnswer(file_data) = None
    /\ NotConfigured(AI_PROXY_TOKEN, AI_PROXY_URL)
    /\ Finish(Error(500, "AI Proxy Token or URL not configured"))
    /\ UNCHANGED <<environ, AI_PROXY_TOKEN, AI_PROXY_URL, request, stream,
                   file_data, raised, extractorRuns, tempFiles, tempCreated,
                   apiCalls, apiOutcome, payload>>

\* lines 137-147, then 250-256
ReturnSpecialAnswer ==
    /\ pc = "resolve"
    /\ DirectAnswer(file_data) = None
    /\ ~NotConfigured(AI_PROXY_TOKEN, AI_PROXY_URL)
    /\ SpecialAnswer(file_data) # None
    /\ Finish(Answer(The(SpecialAnswer(file_data))))
    /\ UNCHANGED <<environ, AI_PROXY_TOKEN, AI_PROXY_URL, request, stream,
                   file_data, raised, extractorRuns, tempFiles, tempCreated,
                   apiCalls, apiOutcome, payload>>

\* lines 149-219, then 250-256: the one call to the model service
CallModel ==
    /\ pc = "resolve"
    /\ DirectAnswer(file_data) = None
    /\ ~NotConfigured(AI_PROXY_TOKEN, AI_PROXY_URL)
    /\ SpecialAnswer(file_data) = None
    /\ \E outcome \in ApiOutcomes :
         /\ apiCalls' = apiCalls + 1
         /\ payload' = Some([url |-> AI_PROXY_URL,
                             token |-> The(AI_PROXY_TOKEN),
                             question |-> Question(request),
                             context |-> Context(file_data)])
         /\ apiOutcome' = Some(outcome)
         /\ Finish(ModelResult(outcome))
    /\ UNCHANGED <<environ, AI_PROXY_TOKEN, AI_PROXY_URL, request, stream,
                   file_data, raised, extractorRuns, tempFiles, tempCreated>>

Next ==
    \/ ValidateRequest
    \/ ExtractZip
    \/ ExtractCsv
    \/ ExtractText
    \/ ReturnDirectAnswer
    \/ ReturnNotConfigured
    \/ ReturnSpecialAnswer
    \/ CallModel

Spec == Init /\ [][Next]_vars

---------------------------------------------------------------------------
(* Properties *)

\* get_answer_from_ai was called and has returned
ResolverReturned == pc = "done" /\ Validate(request) = NoResponse /\ raised = ""

IsZipData == file_data # None /\ The(file_data).file_type = <<"zip">>
IsCsvData == file_data # None /\ The(file_data).file_type = <<"csv">>

\* the non-empty direct answers the file data carries
ZipAnswers ==
    IF IsZipData
    THEN {The(The(file_data).contents)[i].value.direct_answer :
            i \in 1..Len(The(The(file_data).contents))} \ {None, Some(<<>>)}
    ELSE {}
CsvAnswers ==
    IF IsCsvData
    THEN {The(The(file_data).content).direct_answer} \ {None, Some(<<>>)}
    ELSE {}
FileAnswers == ZipAnswers \cup CsvAnswers

ConfigError == Error(500, "AI Proxy Token or URL not configured")

\* C1: when the file data is an archive with an entry that has a non-empty
\* direct answer, or a csv file with a non-empty direct answer, the
\* resolver returns a direct answer of the file with status 200 and the
\* model service is never called, whatever the credentials are.
C1_DirectAnswerBypassesModel ==
    (ResolverReturned /\ FileAnswers # {}) =>
        /\ response.status = 200
        /\ response.answer \in FileAnswers
        /\ response.error = ""
        /\ apiCalls = 0

\* C1 witness: an archive with a direct answer is answered although no
\* token is configured.
C1_Witness ==
    /\ ResolverReturned
    /\ ZipAnswers # {}
    /\ AI_PROXY_TOKEN = None
    /\ response.status = 200
    /\ response.answer \in ZipAnswers

\* the direct answer the text of a csv file should give: the cell of the
\* first data row under the header "answer", None when there is none
ExpectedDirectAnswer(text) ==
    LET rows == CsvRows(text) IN
    IF /\ Len(rows) >= 2
       /\ Contains(rows[1], <<ANSWER>>)
       /\ Len(rows[2]) > IndexOf(rows[1], <<ANSWER>>)
    THEN Some(rows[2][IndexOf(rows[1], <<ANSWER>>) + 1])
    ELSE None

\* C2: for every tabular input the extractor does not raise, and the
\* direct answer is the cell of the first data row in the "answer" column,
\* absent when the header, the row or the cell is missing.
C2_TabularExtractorNeverRaises ==
    (extractorRuns = <<"process_csv_file">>) =>
        /\ raised = ""
        /\ file_data # None
        /\ The(The(file_data).content).direct_answer
               = ExpectedDirectAnswer(DecodeIgnore(stream.bytes))

\* C3: after process_zip_file was called, whether it returned or raised,
\* no temporary file it created is left.
C3_TempFileReleased ==
    Contains(extractorRuns, "process_zip_file") => tempFiles = {}

QuestionMissingOrEmpty ==
    request.question = None \/ Strip(The(request.question), {SPACE}) = <<>>

\* C4: a request whose question is missing or empty is answered with 400
\* and a message about the question, whatever its content type or file,
\* and no extractor runs.
C4_MissingQuestionIs400 ==
    (pc = "done" /\ QuestionMissingOrEmpty) =>
        /\ response.status = 400
        /\ response.error \in {"Question parameter is required",
                               "Question cannot be empty"}
        /\ extractorRuns = <<>>

\* the extension of the declared file name; <<>> when it has no dot
DeclaredExtension ==
    LET name == The(request.file)
        dots == {i \in 1..Len(name) : name[i] = DOT}
    IN IF dots = {} THEN <<>>
       ELSE LET last == CHOOSE i \in dots : \A j \in dots : j <= i
            IN [k \in 1..(Len(name) - last) |-> LowerSym(name[last + k])]

HasDot == \E i \in 1..Len(The(request.file)) : The(request.file)[i] = DOT

Disallowed ==
    /\ HasFile(request)
    /\ ~(HasDot /\ DeclaredExtension \in
            {<<"csv">>, <<"zip">>, <<"txt">>, <<"pdf">>, <<"xlsx">>, <<"json">>})

\* C5: an upload whose declared name has an extension outside the allowed
\* set, or none, is rejected with 400; no extractor runs and the model
\* service is not called.
C5_DisallowedExtensionRejected ==
    Disallowed =>
        /\ extractorRuns = <<>>
        /\ apiCalls = 0
        /\ file_data = None
        /\ pc \in {"request", "done"}
        /\ (pc = "done" => response.status = 400 /\ response.answer = None)

\* C5 witness: a valid question with an .exe upload is rejected by the
\* allow-list check.
C5_Witness ==
    /\ pc = "done"
    /\ Disallowed
    /\ DeclaredExtension = <<"exe">>
    /\ ~QuestionMissingOrEmpty
    /\ response = Error(400, "File type not allowed")
    /\ extractorRuns = <<>>

ExtractorFor(ext) ==
    IF ext = <<"zip">> THEN "process_zip_file"
    ELSE IF ext = <<"csv">> THEN "process_csv_file"
    ELSE "read_as_text"

\* C6: for an upload that passed the allow-list check, the extractor that
\* runs is the one of the declared name's extension, and the file data is
\* tagged with that extension.
C6_ExtractorFollowsDeclaredExtension ==
    (extractorRuns # <<>>) =>
        /\ extractorRuns = <<ExtractorFor(DeclaredExtension)>>
        /\ (file_data # None => The(file_data).file_type = DeclaredExtension)

\* the reply is no JSON object with a non-empty "choices" list whose first
\* choice has a message with a string content
MalformedReply(data) ==
    \/ ~data.is_object
    \/ data.choices \in {None, Some(<<>>)}
    \/ The(data.choices)[1].message = None
    \/ The(The(data.choices)[1].message).content = None
    \/ ~The(The(The(data.choices)[1].message).content).is_str

\* C7: when the model service was called, a transport failure or a
\* malformed reply gives an error result with status 500, never an answer.
C7_MalformedReplyIsError ==
    (pc = "done" /\ apiOutcome # None
        /\ (The(apiOutcome).kind # "JSON" \/ MalformedReply(The(apiOutcome).json)))
    => /\ response.status = 500
       /\ response.answer = None
       /\ response.error \in {"AI service error", "Unexpected error"}

\* C8 as stated: without a non-empty direct answer, a token or a base URL
\* that the environment does not set gives the configuration error and no
\* call.
C8_UnsetCredentialIsConfigError ==
    (ResolverReturned /\ FileAnswers = {}
        /\ (~Truthy(environ.AI_PROXY_TOKEN) \/ ~Truthy(environ.AI_PROXY_URL)))
    => response = ConfigError /\ apiCalls = 0

\* C8 amended: without a non-empty direct answer, a token that is unset or
\* empty, or a base URL that is set to the empty string, gives the
\* configuration error and no call; an unset base URL is replaced by the
\* default URL and is no configuration error.
C8_MissingTokenOrEmptyUrlIsConfigError ==
    /\ (ResolverReturned /\ FileAnswers = {}
          /\ (~Truthy(environ.AI_PROXY_TOKEN) \/ environ.AI_PROXY_URL = Some(<<>>)))
       => response = ConfigError /\ apiCalls = 0
    /\ (ResolverReturned /\ FileAnswers = {}
          /\ Truthy(environ.AI_PROXY_TOKEN) /\ environ.AI_PROXY_URL = None)
       => response # ConfigError

\* C8 witness: the token is set, the base URL is set to the empty string,
\* and the request ends with the configuration error.
C8_Witness ==
    /\ ResolverReturned
    /\ FileAnswers = {}
    /\ Truthy(environ.AI_PROXY_TOKEN)
    /\ environ.AI_PROXY_URL = Some(<<>>)
    /\ response = ConfigError
    /\ apiCalls = 0

\* the entries of the uploaded archive, in enumeration order
ArchiveEntries == IF stream.zip = None THEN <<>> ELSE The(stream.zip)

\* the direct answer of archive entry i taken on its own
EntryAnswer(i) ==
    IF EndsWithCsv(ArchiveEntries[i].filename) /\ ArchiveEntries[i].body # None
    THEN ExpectedDirectAnswer(DecodeIgnore(The(ArchiveEntries[i].body)))
    ELSE None

EntryHasAnswer(i) == EntryAnswer(i) \notin {None, Some(<<>>)}

\* C9 as stated: the answer of an archive is the direct answer of the first
\* entry, in archive enumeration order, that has a non-empty direct answer.
C9_FirstArchiveEntryWins ==
    \A i \in 1..Len(ArchiveEntries) :
        (ResolverReturned /\ IsZipData /\ EntryHasAnswer(i)
            /\ \A j \in 1..(i-1) : ~EntryHasAnswer(j))
        => response = Answer(The(EntryAnswer(i)))

\* the last entry of the archive that has the name of entry i
LastOfName(i) ==
    CHOOSE j \in i..Len(ArchiveEntries) :
        /\ ArchiveEntries[j].filename = ArchiveEntries[i].filename
        /\ \A k \in (j+1)..Len(ArchiveEntries) :
              ArchiveEntries[k].filename # ArchiveEntries[i].filename

\* entry i is the first of its name, and the content kept under that name
\* (the one of the last entry of the name) has a non-empty direct answer
NameHasAnswer(i) ==
    /\ \A j \in 1..(i-1) : ArchiveEntries[j].filename # ArchiveEntries[i].filename
    /\ EntryHasAnswer(LastOfName(i))

\* C9 amended: entry names are examined in the order of their first
\* occurrence in the archive, each name standing for its last entry; the
\* answer is the direct answer of the first name whose content has a
\* non-empty one, and names before it without one change nothing.
C9_FirstNameInArchiveOrderWins ==
    \A i \in 1..Len(ArchiveEntries) :
        (ResolverReturned /\ IsZipData /\ NameHasAnswer(i)
            /\ \A j \in 1..(i-1) : ~NameHasAnswer(j))
        => /\ response = Answer(The(EntryAnswer(LastOfName(i))))
           /\ apiCalls = 0

\* C9 witness: two entries with different names, only the second with a
\* direct answer; the second's answer is returned.
C9_Witness ==
    /\ ResolverReturned
    /\ IsZipData
    /\ Len(ArchiveEntries) = 2
    /\ ArchiveEntries[1].filename # ArchiveEntries[2].filename
    /\ EndsWithCsv(ArchiveEntries[1].filename)
    /\ ~EntryHasAnswer(1)
    /\ EntryHasAnswer(2)
    /\ response = Answer(The(EntryAnswer(2)))

\* C10: with credentials configured and no non-empty direct answer, the
\* model service is called exactly once and the result is the one of that
\* call.
C10_ExactlyOneModelCall ==
    (ResolverReturned /\ FileAnswers = {}
        /\ Truthy(AI_PROXY_TOKEN) /\ AI_PROXY_URL # <<>>)
    => /\ apiCalls = 1
       /\ apiOutcome # None
       /\ response = ModelResult(The(apiOutcome))

===========================================================================
